---- MODULE Spec2Model ----
(***************************************************************************)
(* Model of the Bluesky ingestion code of MyanmarEQ2025.                   *)
(*                                                                         *)
(*   Spec / FairSpec : the streaming pipeline of src/scraper.py            *)
(*                     (FirehoseScraper, client_process, worker_process).  *)
(*   HistSpec        : the persistence path of src/historical_scraper.py   *)
(*                     (_save_post_data, process_results) over restarts.   *)
(*   SearchSpec      : one call of BlueskyHistoricalSearch.search_posts:   *)
(*                     page requests with backoff, filters, persistence    *)
(*                     and image download passes.                          *)
(***************************************************************************)
EXTENDS Integers, Sequences, FiniteSets, Bags, TLC

\* ------------------------------------------------------------------ bounds
NumWorkers == 2        \* num_workers of the run (a command-line choice)
MaxFeed == 2           \* messages the firehose delivers during the run
MaxPostLimit == 1      \* the post_limit tried (0 stands for None)
MaxSigint == 1         \* SIGINTs delivered to the main process

Workers == 1..NumWorkers

\* ------------------------------------------------------ streaming: state
VARIABLES
    stop_event,        \* multiprocessing.Event shared by all processes
    queue,             \* multiprocessing.Queue(): raw messages
    lock,              \* multiprocessing.Lock of the output file: 0 or holder
    count_lock,        \* the RLock inside post_count: 0 or holder
    post_count,        \* multiprocessing.Value('i', 0)
    output,            \* lines of output_file, in file order
    wpc,               \* worker -> position in worker_process
    todo,              \* worker -> accepted records of its message not yet saved
    cpc,               \* position of client_process
    feed,              \* messages the firehose has handed to message_handler
    ngot,              \* number of successful queue.get calls
    ctl,               \* call stack of the main process, innermost frame first
    duration_seconds,  \* argument of start_collection (0: None)
    post_limit,        \* argument of start_collection (0: None)
    time_up,           \* time.time() > end_time
    sigints,           \* SIGINTs delivered so far
    exit_status,       \* "running", "returned" or "exit0"
    reports,           \* post counts printed by "Collected N posts", in order
    logged_error,      \* worker that printed the last "Error processing ..." (0: none)
    count_read         \* worker -> post_count.value as read by its `+= 1`

svars == <<stop_event, queue, lock, count_lock, post_count, output, wpc, todo,
           cpc, feed, ngot, ctl, duration_seconds, post_limit, time_up,
           sigints, exit_status, reports, logged_error, count_read>>

\* --------------------------------------------------- historical: state
VARIABLES
    file_exists,       \* config.bluesky_processed_posts_fp.exists()
    csv_rows,          \* data rows of processed_posts.csv, as written
    csv_headers,       \* header lines in the file
    h_post_count,      \* BlueskyHistoricalSearch.post_count
    image_post_count,  \* BlueskyHistoricalSearch.image_post_count
    h_runs,            \* searcher instances created so far
    h_submitted        \* uris handed to _save_post_data so far (all runs)

\* ------------------------------------------- historical search: state
VARIABLES
    corpus,            \* posts the search endpoint holds, in result order
    nkeywords,         \* len(keyword_list)
    limit,             \* argument of search_posts (0: None)
    arg_only_images,   \* argument only_images of search_posts
    spc,               \* position in search_posts
    keyword,           \* index in keyword_list of the keyword searched
    cursor,            \* cursor of the page loop (0: None)
    response,          \* what _make_request_with_backoff returned
    pidx,              \* index in response.posts of the post at hand
    posts_collected,   \* local of search_posts
    images_collected,  \* local of search_posts
    all_results,       \* local of search_posts
    retries,           \* local of _make_request_with_backoff
    calls,             \* calls of func made by the request in progress
    slept,             \* delays passed to time.sleep by it, in milliseconds
    requests,          \* requests made by this call of search_posts
    fetch_calls,       \* bag: requests.get calls of _download_image per URL
    images_dir,        \* URLs whose image file was written
    last_pass,         \* the last call of _download_new_images
    counted,           \* URLs added to images_collected by this call
    authenticated,     \* self.authenticated of the searcher
    logins             \* calls of client.login made by the searcher

inputs == <<corpus, nkeywords, limit, arg_only_images>>
reqvars == <<retries, calls, slept>>
dlvars == <<fetch_calls, images_dir, last_pass>>
authvars == <<authenticated, logins>>
qvars == <<inputs, authvars, spc, keyword, cursor, response, pidx, posts_collected,
           images_collected, all_results, reqvars, requests, dlvars, counted>>

storevars == <<file_exists, csv_rows, csv_headers, h_post_count,
               image_post_count, h_submitted>>

hvars == <<file_exists, csv_rows, csv_headers, h_post_count, image_post_count,
           h_runs, h_submitted, qvars>>

vars == <<svars, hvars>>

\* ============================================================ STREAMING
\* ------------------------------------------------- feed messages (commits)
PostCollection == "app.bsky.feed.post"
LikeCollection == "app.bsky.feed.like"

\* A commit that likes a post and creates an image post; its CAR holds an MST
\* node and the post record.
CommitImagePost ==
    [repo   |-> "did:plc:a",
     ops    |-> << [action |-> "create", collection |-> LikeCollection,
                    rkey |-> "k0", cid |-> "cid-k0"],
                   [action |-> "create", collection |-> PostCollection,
                    rkey |-> "k1", cid |-> "cid-k1"] >>,
     blocks |-> << [type |-> "mst", cid |-> "cid-mst", text |-> "",
                    has_images |-> FALSE, malformed |-> FALSE],
                   [type |-> PostCollection, cid |-> "cid-k1", text |-> "text-k1",
                    has_images |-> TRUE, malformed |-> FALSE] >>]

\* A commit that deletes a post and creates a post. Its CAR holds a post record
\* without images, a post record whose embed is not a mapping
\* (record.get('embed', {}).get raises in _check_for_images) and a well-formed
\* image post record.
CommitTextPost ==
    [repo   |-> "did:plc:b",
     ops    |-> << [action |-> "delete", collection |-> PostCollection,
                    rkey |-> "k1", cid |-> "<None>"],
                   [action |-> "create", collection |-> PostCollection,
                    rkey |-> "k2", cid |-> "cid-k2"] >>,
     blocks |-> << [type |-> PostCollection, cid |-> "cid-k2", text |-> "text-k2",
                    has_images |-> FALSE, malformed |-> FALSE],
                   [type |-> PostCollection, cid |-> "cid-x", text |-> "text-x",
                    has_images |-> FALSE, malformed |-> TRUE],
                   [type |-> PostCollection, cid |-> "cid-y", text |-> "text-y",
                    has_images |-> TRUE, malformed |-> FALSE] >>]

Commits == {CommitImagePost, CommitTextPost}

\* FirehoseScraper.__init__: self.only_images = True, self.kwargs = None
only_images == TRUE

\* f'at://{repo}/{path}'
Uri(repo, op) == <<repo, op.collection, op.rkey>>

extract_post_data(record, repo, op) ==
    [uri |-> Uri(repo, op), has_images |-> record.has_images,
     text |-> record.text]

\* The records _process_post hands to _save_post_data for one operation: the
\* post records of the commit's CAR that pass the image filter, up to the first
\* record whose extraction raises. The try of line 64 encloses the whole loop
\* over car.blocks, so the except of line 80 ends the loop.
RECURSIVE process_post(_, _, _)
process_post(repo, op, blocks) ==
    IF blocks = << >> THEN << >>
    ELSE LET record == Head(blocks)
             rest   == process_post(repo, op, Tail(blocks))
         IN  IF record.type # PostCollection THEN rest
             ELSE IF record.malformed THEN << >>
             ELSE LET post_data == extract_post_data(record, repo, op)
                  IN  IF only_images /\ ~post_data.has_images THEN rest
                      ELSE << post_data >> \o rest

RECURSIVE process_ops(_, _)
process_ops(commit, ops) ==
    IF ops = << >> THEN << >>
    ELSE LET op == Head(ops)
         IN  (IF op.action = "create" /\ op.collection = PostCollection
              THEN process_post(commit.repo, op, commit.blocks)
              ELSE << >>) \o process_ops(commit, Tail(ops))

\* The records process_message saves for one message, in order.
process_message(message) == process_ops(message.commit, message.commit.ops)

\* An exception is raised, caught and printed while the message is processed:
\* some create operation of a post reaches a record whose extraction raises.
Raises(message) ==
    /\ \E i \in 1..Len(message.commit.ops) :
          /\ message.commit.ops[i].action = "create"
          /\ message.commit.ops[i].collection = PostCollection
    /\ \E j \in 1..Len(message.commit.blocks) :
          /\ message.commit.blocks[j].type = PostCollection
          /\ message.commit.blocks[j].malformed

\* ----------------------------------------------------- shared primitives
\* multiprocessing.Queue() is built without a maxsize: 0, no capacity.
maxsize == 0

\* Queue.put blocks while the queue is full, which needs a positive maxsize.
QueueFull(q) == maxsize > 0 /\ Len(q) >= maxsize

\* A put that adds the message at the wrong end.
QueuePutFront(q, message) == << message >> \o q

\* queue.put: the message joins the tail of the queue.
QueuePut(q, message) == Append(q, message)

WorkerAlive(w) == wpc[w] \notin {"none", "exited", "terminated"}
ClientAlive == cpc \in {"recv", "handler", "put"}

Top == ctl[1]
AtPc(pc) == ctl # << >> /\ Top.pc = pc
Frame(pc) == [pc |-> pc, i |-> 1]
Goto(pc) == << Frame(pc) >> \o Tail(ctl)

Idle == AtPc("idle")
Started == ~Idle
Running == Started /\ ~stop_event /\ exit_status = "running"
Stopped == Len(reports) >= 1
Draining == stop_event /\ ~Stopped

\* ------------------------------------------------------------- Init
SInit ==
    /\ stop_event = FALSE
    /\ queue = << >>
    /\ lock = 0
    /\ count_lock = 0
    /\ post_count = 0
    /\ output = << >>
    /\ wpc = [w \in Workers |-> "none"]
    /\ todo = [w \in Workers |-> << >>]
    /\ cpc = "none"
    /\ feed = << >>
    /\ ngot = 0
    /\ ctl = << Frame("idle") >>
    /\ duration_seconds \in {0, 1}
    /\ post_limit \in {0, MaxPostLimit}
    /\ ~(duration_seconds # 0 /\ post_limit # 0)   \* -t and -n exclude each other
    /\ time_up = FALSE
    /\ sigints = 0
    /\ exit_status = "running"
    /\ reports = << >>
    /\ logged_error = 0
    /\ count_read = [w \in Workers |-> 0]

HIdle ==
    /\ file_exists = FALSE
    /\ csv_rows = << >>
    /\ csv_headers = 0
    /\ h_post_count = 0
    /\ image_post_count = 0
    /\ h_runs = 0
    /\ h_submitted = << >>

\* _make_request_with_backoff returned None, or nothing was requested yet.
NoResponse == [ok |-> FALSE, posts |-> << >>, cursor |-> 0]

\* No download pass was run yet.
NoPass == [n |-> 0, kind |-> "none", at |-> 0, all_urls |-> {}]

\* The locals of a search_posts that was not called.
QLocals ==
    /\ spc = "none"
    /\ keyword = 0
    /\ cursor = 0
    /\ response = NoResponse
    /\ pidx = 0
    /\ posts_collected = 0
    /\ images_collected = 0
    /\ all_results = << >>
    /\ retries = 0
    /\ calls = 0
    /\ slept = << >>
    /\ requests = 0
    /\ fetch_calls = EmptyBag
    /\ images_dir = {}
    /\ last_pass = NoPass
    /\ counted = {}
    /\ authenticated = FALSE
    /\ logins = 0

QIdle ==
    /\ corpus = << >>
    /\ nkeywords = 1
    /\ limit = 0
    /\ arg_only_images = FALSE
    /\ QLocals


\* ------------------------------------------------------ client_process
\* client.start: the firehose hands the next message to message_handler.
ClientReceive ==
    /\ cpc = "recv"
    /\ Len(feed) < MaxFeed
    /\ \E c \in Commits :
         feed' = Append(feed, [seq |-> Len(feed) + 1, commit |-> c])
    /\ cpc' = "handler"
    /\ UNCHANGED <<logged_error, count_read, stop_event, queue, lock, count_lock, post_count, output, wpc,
                   todo, ngot, ctl, duration_seconds, post_limit, time_up,
                   sigints, exit_status, reports>>

\* message_handler, line 28: if stop_event.is_set(): client.stop(); return
ClientHandlerCheck ==
    /\ cpc = "handler"
    /\ cpc' = IF stop_event THEN "exited" ELSE "put"
    /\ UNCHANGED <<logged_error, count_read, stop_event, queue, lock, count_lock, post_count, output, wpc,
                   todo, feed, ngot, ctl, duration_seconds, post_limit, time_up,
                   sigints, exit_status, reports>>

\* message_handler, line 31: queue.put(message)
ClientPut ==
    /\ cpc = "put"
    /\ ~QueueFull(queue)
    /\ queue' = QueuePut(queue, feed[Len(feed)])
    /\ cpc' = "recv"
    /\ UNCHANGED <<logged_error, count_read, stop_event, lock, count_lock, post_count, output, wpc, todo,
                   feed, ngot, ctl, duration_seconds, post_limit, time_up,
                   sigints, exit_status, reports>>

\* client.start raises (connection lost): lines 35-37, the process ends.
ClientError ==
    /\ cpc = "recv"
    /\ cpc' = "exited"
    /\ UNCHANGED <<logged_error, count_read, stop_event, queue, lock, count_lock, post_count, output, wpc,
                   todo, feed, ngot, ctl, duration_seconds, post_limit, time_up,
                   sigints, exit_status, reports>>

\* ------------------------------------------------------ worker_process
\* line 14: while not stop_event.is_set()
WorkerLoop(w) ==
    /\ wpc[w] = "loop"
    /\ wpc' = [wpc EXCEPT ![w] = IF stop_event THEN "exited" ELSE "get"]
    /\ UNCHANGED <<logged_error, count_read, stop_event, queue, lock, count_lock, post_count, output,
                   todo, cpc, feed, ngot, ctl, duration_seconds, post_limit,
                   time_up, sigints, exit_status, reports>>

\* A worker whose handlers let the exception of a failing message through:
\* the worker process ends with it.
WorkerGetUncaught(w) ==
    /\ wpc[w] = "get"
    /\ queue # << >>
    /\ queue' = Tail(queue)
    /\ ngot' = ngot + 1
    /\ LET records == process_message(Head(queue))
       IN  /\ todo' = [todo EXCEPT ![w] = records]
           /\ wpc' = [wpc EXCEPT ![w] = IF Raises(Head(queue)) THEN "crashed"
                                        ELSE IF records = << >> THEN "loop"
                                        ELSE "save"]
    /\ logged_error' = logged_error
    /\ UNCHANGED <<count_read, stop_event, lock, count_lock, post_count, output, cpc, feed,
                   ctl, duration_seconds, post_limit, time_up, sigints,
                   exit_status, reports>>

\* lines 16-17, 20-21, 50-51, 80-81: queue.get returns a message;
\* process_message decodes and filters it, leaving the accepted records to
\* save. An exception of the processing is caught and printed by the except
\* clause around it and the worker goes on with its loop.
WorkerGet(w) ==
    /\ wpc[w] = "get"
    /\ queue # << >>
    /\ queue' = Tail(queue)
    /\ ngot' = ngot + 1
    /\ LET records == process_message(Head(queue))
       IN  /\ todo' = [todo EXCEPT ![w] = records]
           /\ wpc' = [wpc EXCEPT ![w] = IF records = << >> THEN "loop" ELSE "save"]
    /\ logged_error' = IF Raises(Head(queue)) THEN w ELSE logged_error
    /\ UNCHANGED <<count_read, stop_event, lock, count_lock, post_count, output, cpc, feed,
                   ctl, duration_seconds, post_limit, time_up, sigints,
                   exit_status, reports>>

\* lines 16, 18-19, 14: queue.get(timeout=1) raises Empty, the worker
\* continues with the loop test and, the event unset, waits on the queue again.
WorkerGetEmpty(w) ==
    /\ wpc[w] = "get"
    /\ queue = << >>
    /\ wpc' = [wpc EXCEPT ![w] = IF stop_event THEN "exited" ELSE "get"]
    /\ UNCHANGED <<logged_error, count_read, stop_event, queue, lock, count_lock, post_count, output,
                   todo, cpc, feed, ngot, ctl, duration_seconds, post_limit,
                   time_up, sigints, exit_status, reports>>

\* A save that opens the file without taking the lock.
SaveAcquireNoLock(w) ==
    /\ wpc[w] = "save"
    /\ lock' = w
    /\ wpc' = [wpc EXCEPT ![w] = "write"]
    /\ UNCHANGED <<logged_error, count_read, stop_event, queue, count_lock,
                   post_count, output, todo, cpc, feed, ngot, ctl,
                   duration_seconds, post_limit, time_up, sigints, exit_status,
                   reports>>

\* _save_post_data, line 121: with lock
SaveAcquire(w) ==
    /\ wpc[w] = "save"
    /\ lock = 0
    /\ lock' = w
    /\ wpc' = [wpc EXCEPT ![w] = "write"]
    /\ UNCHANGED <<logged_error, count_read, stop_event, queue, count_lock,
                   post_count, output, todo, cpc, feed, ngot, ctl,
                   duration_seconds, post_limit, time_up, sigints, exit_status,
                   reports>>

\* _save_post_data, lines 122-124: append the record as one line; the file is
\* closed and the lock released.
SaveWrite(w) ==
    /\ wpc[w] = "write"
    /\ output' = Append(output, Head(todo[w]))
    /\ lock' = 0
    /\ wpc' = [wpc EXCEPT ![w] = "count"]
    /\ UNCHANGED <<logged_error, count_read, stop_event, queue, count_lock,
                   post_count, todo, cpc, feed, ngot, ctl, duration_seconds,
                   post_limit, time_up, sigints, exit_status, reports>>

\* An increment that reads the counter without taking its lock.
SaveCountNoLock(w) ==
    /\ wpc[w] = "count"
    /\ count_lock' = w
    /\ count_read' = [count_read EXCEPT ![w] = post_count]
    /\ wpc' = [wpc EXCEPT ![w] = "incr"]
    /\ UNCHANGED <<logged_error, stop_event, queue, lock, post_count, output,
                   todo, cpc, feed, ngot, ctl, duration_seconds, post_limit,
                   time_up, sigints, exit_status, reports>>

\* _save_post_data, lines 125-126: with post_count.get_lock(), and the read of
\* post_count.value that `+= 1` starts with.
SaveCountAcquire(w) ==
    /\ wpc[w] = "count"
    /\ count_lock = 0
    /\ count_lock' = w
    /\ count_read' = [count_read EXCEPT ![w] = post_count]
    /\ wpc' = [wpc EXCEPT ![w] = "incr"]
    /\ UNCHANGED <<logged_error, stop_event, queue, lock, post_count, output,
                   todo, cpc, feed, ngot, ctl, duration_seconds, post_limit,
                   time_up, sigints, exit_status, reports>>

\* _save_post_data, line 126: `+= 1` stores the value read plus one, then the
\* lock is released and the record is done; _process_post goes on to the next
\* one.
SaveIncrement(w) ==
    /\ wpc[w] = "incr"
    /\ post_count' = count_read[w] + 1
    /\ count_read' = [count_read EXCEPT ![w] = 0]
    /\ count_lock' = 0
    /\ todo' = [todo EXCEPT ![w] = Tail(todo[w])]
    /\ wpc' = [wpc EXCEPT ![w] = IF Tail(todo[w]) = << >> THEN "loop" ELSE "save"]
    /\ UNCHANGED <<logged_error, stop_event, queue, lock, output, cpc, feed,
                   ngot, ctl, duration_seconds, post_limit, time_up, sigints,
                   exit_status, reports>>

WorkerStep(w) ==
    \/ WorkerLoop(w)
    \/ WorkerGet(w)
    \/ WorkerGetEmpty(w)
    \/ SaveAcquire(w)
    \/ SaveWrite(w)
    \/ SaveCountAcquire(w)
    \/ SaveIncrement(w)

ClientStep ==
    \/ ClientReceive
    \/ ClientHandlerCheck
    \/ ClientPut


\* ------------------------------------------- FirehoseScraper (main process)
\* start_collection, lines 149-178: the workers are started and the SIGINT
\* handler installed.
StartCollection ==
    /\ AtPc("idle")
    /\ wpc' = [w \in Workers |-> "loop"]
    /\ ctl' = Goto("start_client")
    /\ UNCHANGED <<logged_error, count_read, stop_event, queue, lock, count_lock, post_count, output,
                   todo, cpc, feed, ngot, duration_seconds, post_limit, time_up,
                   sigints, exit_status, reports>>

\* start_collection, lines 180-186: the outer loop starts a client process.
StartClient ==
    /\ AtPc("start_client")
    /\ cpc' = "recv"
    /\ ctl' = Goto("monitor")
    /\ UNCHANGED <<logged_error, count_read, stop_event, queue, lock, count_lock, post_count, output, wpc,
                   todo, feed, ngot, duration_seconds, post_limit, time_up,
                   sigints, exit_status, reports>>

\* A call of _stop_collection whose caller resumes at `ret`. Lines 229-230
\* run with the call: the stop event is set.
CallStopCollection(ret) ==
    /\ stop_event' = TRUE
    /\ ctl' = << Frame("sc_client"), Frame(ret) >> \o Tail(ctl)

TimeLimitReached == duration_seconds # 0 /\ time_up
PostLimitReached == post_limit # 0 /\ post_count >= post_limit

\* The monitor loop as it would be if a dead client were restarted instead of
\* ending the collection.
MonitorRestartsClient ==
    /\ AtPc("monitor")
    /\ IF stop_event
       THEN ctl' = Goto("after_loop") /\ UNCHANGED stop_event
       ELSE IF TimeLimitReached
       THEN CallStopCollection("after_loop")
       ELSE /\ post_limit # 0 => count_lock = 0
            /\ IF PostLimitReached
               THEN CallStopCollection("after_loop")
               ELSE IF ~ClientAlive
               THEN ctl' = Goto("start_client") /\ UNCHANGED stop_event
               ELSE UNCHANGED <<stop_event, ctl>>
    /\ UNCHANGED <<logged_error, count_read, queue, lock, count_lock, post_count, output, wpc, todo, cpc,
                   feed, ngot, duration_seconds, post_limit, time_up, sigints,
                   exit_status, reports>>

\* One iteration of the monitor loop, lines 190-211. Reading post_count.value
\* takes the counter's lock.
Monitor ==
    /\ AtPc("monitor")
    /\ IF stop_event
       THEN ctl' = Goto("after_loop") /\ UNCHANGED stop_event
       ELSE IF TimeLimitReached
       THEN CallStopCollection("after_loop")
       ELSE /\ post_limit # 0 => count_lock = 0
            /\ IF PostLimitReached
               THEN CallStopCollection("after_loop")
               ELSE IF ~ClientAlive
               THEN CallStopCollection("after_loop")
               ELSE UNCHANGED <<stop_event, ctl>>
    /\ UNCHANGED <<logged_error, count_read, queue, lock, count_lock, post_count, output, wpc, todo, cpc,
                   feed, ngot, duration_seconds, post_limit, time_up, sigints,
                   exit_status, reports>>

\* The outer loop as it would be without the test of line 215: a client is
\* started again whenever the monitor loop is left.
AfterLoopRestarts ==
    /\ AtPc("after_loop")
    /\ ctl' = Goto("start_client")
    /\ UNCHANGED <<logged_error, count_read, stop_event, queue, lock, count_lock,
                   post_count, output, wpc, todo, cpc, feed, ngot,
                   duration_seconds, post_limit, time_up, sigints, exit_status,
                   reports>>

\* start_collection, lines 215-216, after the monitor loop is left.
AfterLoop ==
    /\ AtPc("after_loop")
    /\ ctl' = IF stop_event THEN Goto("final") ELSE Goto("start_client")
    /\ UNCHANGED <<logged_error, count_read, stop_event, queue, lock, count_lock, post_count, output, wpc,
                   todo, cpc, feed, ngot, duration_seconds, post_limit, time_up,
                   sigints, exit_status, reports>>

\* start_collection, line 225: the closing call of _stop_collection.
Final ==
    /\ AtPc("final")
    /\ CallStopCollection("return")
    /\ UNCHANGED <<logged_error, count_read, queue, lock, count_lock, post_count, output, wpc, todo, cpc,
                   feed, ngot, duration_seconds, post_limit, time_up, sigints,
                   exit_status, reports>>

\* start_collection returns and the script ends.
Return ==
    /\ AtPc("return")
    /\ ctl' = << >>
    /\ exit_status' = "returned"
    /\ UNCHANGED <<logged_error, count_read, stop_event, queue, lock, count_lock, post_count, output, wpc,
                   todo, cpc, feed, ngot, duration_seconds, post_limit, time_up,
                   sigints, reports>>

\* _stop_collection, lines 232-234: terminate and join the client.
StopClient ==
    /\ AtPc("sc_client")
    /\ cpc' = IF ClientAlive THEN "terminated" ELSE cpc
    /\ ctl' = Goto("sc_workers")
    /\ UNCHANGED <<logged_error, count_read, stop_event, queue, lock, count_lock, post_count, output, wpc,
                   todo, feed, ngot, duration_seconds, post_limit, time_up,
                   sigints, exit_status, reports>>

\* _stop_collection, lines 237-240: one iteration of the loop over the
\* workers; a worker that is alive is terminated at once, then joined.
StopWorker ==
    /\ AtPc("sc_workers")
    /\ LET w == Top.i
       IN  /\ wpc' = [wpc EXCEPT ![w] = IF WorkerAlive(w) THEN "terminated" ELSE @]
           /\ ctl' = IF w = NumWorkers
                     THEN Goto("sc_report")
                     ELSE << [pc |-> "sc_workers", i |-> w + 1] >> \o Tail(ctl)
    /\ UNCHANGED <<logged_error, count_read, stop_event, queue, lock, count_lock, post_count, output,
                   todo, cpc, feed, ngot, duration_seconds, post_limit, time_up,
                   sigints, exit_status, reports>>

\* _stop_collection, lines 242-250: the summary. post_count.value takes the
\* counter's lock, which a terminated worker may still hold.
Report ==
    /\ AtPc("sc_report")
    /\ count_lock = 0
    /\ reports' = Append(reports, post_count)
    /\ ctl' = Tail(ctl)
    /\ UNCHANGED <<logged_error, count_read, stop_event, queue, lock, count_lock, post_count, output, wpc,
                   todo, cpc, feed, ngot, duration_seconds, post_limit, time_up,
                   sigints, exit_status>>

\* SIGINT reaches the main process once the handler is installed:
\* signal_handler, lines 173-175, calls _stop_collection on top of whatever
\* the main process was doing. The frames it interrupted never run again
\* (sys.exit(0) on line 176 unwinds them: no handler of start_collection
\* catches SystemExit), so they are dropped here.
Interrupt ==
    /\ Started
    /\ exit_status = "running"
    /\ sigints < MaxSigint
    /\ sigints' = sigints + 1
    /\ stop_event' = TRUE
    /\ ctl' = << Frame("sc_client"), Frame("sys_exit") >>
    /\ UNCHANGED <<logged_error, count_read, queue, lock, count_lock, post_count, output, wpc, todo, cpc,
                   feed, ngot, duration_seconds, post_limit, time_up,
                   exit_status, reports>>

\* signal_handler, line 176: sys.exit(0) unwinds every frame.
SysExit ==
    /\ AtPc("sys_exit")
    /\ ctl' = << >>
    /\ exit_status' = "exit0"
    /\ UNCHANGED <<logged_error, count_read, stop_event, queue, lock, count_lock, post_count, output, wpc,
                   todo, cpc, feed, ngot, duration_seconds, post_limit, time_up,
                   sigints, reports>>

\* time.time() passes end_time.
Tick ==
    /\ Started
    /\ exit_status = "running"
    /\ duration_seconds # 0
    /\ ~time_up
    /\ time_up' = TRUE
    /\ UNCHANGED <<logged_error, count_read, stop_event, queue, lock, count_lock, post_count, output, wpc,
                   todo, cpc, feed, ngot, ctl, duration_seconds, post_limit,
                   sigints, exit_status, reports>>

ControllerStep ==
    \/ StartCollection
    \/ StartClient
    \/ Monitor
    \/ AfterLoop
    \/ Final
    \/ Return
    \/ StopClient
    \/ StopWorker
    \/ Report
    \/ SysExit

\* ------------------------------------------------------ specification
Init == SInit /\ HIdle /\ QIdle

Next ==
    \/ StartCollection /\ UNCHANGED hvars
    \/ StartClient /\ UNCHANGED hvars
    \/ Monitor /\ UNCHANGED hvars
    \/ AfterLoop /\ UNCHANGED hvars
    \/ Final /\ UNCHANGED hvars
    \/ Return /\ UNCHANGED hvars
    \/ StopClient /\ UNCHANGED hvars
    \/ StopWorker /\ UNCHANGED hvars
    \/ Report /\ UNCHANGED hvars
    \/ Interrupt /\ UNCHANGED hvars
    \/ SysExit /\ UNCHANGED hvars
    \/ Tick /\ UNCHANGED hvars
    \/ ClientReceive /\ UNCHANGED hvars
    \/ ClientHandlerCheck /\ UNCHANGED hvars
    \/ ClientPut /\ UNCHANGED hvars
    \/ ClientError /\ UNCHANGED hvars
    \/ \E w \in Workers : WorkerLoop(w) /\ UNCHANGED hvars
    \/ \E w \in Workers : WorkerGet(w) /\ UNCHANGED hvars
    \/ \E w \in Workers : WorkerGetEmpty(w) /\ UNCHANGED hvars
    \/ \E w \in Workers : SaveAcquire(w) /\ UNCHANGED hvars
    \/ \E w \in Workers : SaveWrite(w) /\ UNCHANGED hvars
    \/ \E w \in Workers : SaveCountAcquire(w) /\ UNCHANGED hvars
    \/ \E w \in Workers : SaveIncrement(w) /\ UNCHANGED hvars

Spec == Init /\ [][Next]_vars

\* Every live process is scheduled: the main process, each worker and the
\* client run on their own operating-system process. The feed, the clock and
\* SIGINT are the environment and carry no fairness.
FairSpec ==
    /\ Spec
    /\ WF_vars(ControllerStep /\ UNCHANGED hvars)
    /\ WF_vars((ClientHandlerCheck \/ ClientPut) /\ UNCHANGED hvars)
    /\ \A w \in Workers : WF_vars(WorkerStep(w) /\ UNCHANGED hvars)


\* ------------------------------------------- decoding of one batch commit
MaxOps == 2            \* operations of a batch commit

\* The operations a batch commit is made of: commit.ops, lines 46-48.
BatchOps ==
    { [action |-> "create", collection |-> PostCollection,
       rkey |-> "k1", cid |-> "cid-k1"],
      [action |-> "create", collection |-> PostCollection,
       rkey |-> "k2", cid |-> "cid-k2"],
      [action |-> "create", collection |-> LikeCollection,
       rkey |-> "k0", cid |-> "cid-k0"],
      [action |-> "delete", collection |-> PostCollection,
       rkey |-> "k3", cid |-> "<None>"] }

\* The blocks the CAR of a commit holds for its operations, lines 67-68: the
\* record of every create, under the cid the operation names (a delete has no
\* record); every post record carries images.
RECURSIVE BlocksOf(_)
BlocksOf(ops) ==
    IF ops = << >> THEN << >>
    ELSE LET op == Head(ops)
         IN  (IF op.action = "create"
              THEN << [type |-> op.collection, cid |-> op.cid,
                       text |-> "text-" \o op.rkey,
                       has_images |-> op.collection = PostCollection,
                       malformed |-> FALSE] >>
              ELSE << >>) \o BlocksOf(Tail(ops))

\* The commits of one repository with up to MaxOps operations on distinct
\* paths; the CAR of each holds an MST node and the records of its creates.
BatchCommits ==
    { [repo   |-> "did:plc:c",
       ops    |-> ops,
       blocks |-> << [type |-> "mst", cid |-> "cid-mst", text |-> "",
                      has_images |-> FALSE, malformed |-> FALSE] >>
                  \o BlocksOf(ops)] :
        ops \in { o \in UNION { [1..n -> BatchOps] : n \in 1..MaxOps } :
                    \A i, j \in DOMAIN o : o[i] = o[j] => i = j } }

\* A collection that runs without limits (lines 180-188 done, the monitor
\* loop entered): the workers are in their loops and the client has put the
\* one message it received, a batch commit, on the queue.
DInit ==
    /\ stop_event = FALSE
    /\ \E c \in BatchCommits :
         /\ feed = << [seq |-> 1, commit |-> c] >>
         /\ queue = feed
    /\ lock = 0
    /\ count_lock = 0
    /\ post_count = 0
    /\ output = << >>
    /\ wpc = [w \in Workers |-> "loop"]
    /\ todo = [w \in Workers |-> << >>]
    /\ cpc = "recv"
    /\ ngot = 0
    /\ ctl = << Frame("monitor") >>
    /\ duration_seconds = 0
    /\ post_limit = 0
    /\ time_up = FALSE
    /\ sigints = 0
    /\ exit_status = "running"
    /\ reports = << >>
    /\ logged_error = 0
    /\ count_read = [w \in Workers |-> 0]
    /\ HIdle
    /\ QIdle

\* The steps of the workers alone.
DNext ==
    \/ \E w \in Workers : WorkerLoop(w) /\ UNCHANGED hvars
    \/ \E w \in Workers : WorkerGet(w) /\ UNCHANGED hvars
    \/ \E w \in Workers : WorkerGetEmpty(w) /\ UNCHANGED hvars
    \/ \E w \in Workers : SaveAcquire(w) /\ UNCHANGED hvars
    \/ \E w \in Workers : SaveWrite(w) /\ UNCHANGED hvars
    \/ \E w \in Workers : SaveCountAcquire(w) /\ UNCHANGED hvars
    \/ \E w \in Workers : SaveIncrement(w) /\ UNCHANGED hvars

DecodeSpec == DInit /\ [][DNext]_vars


\* =========================================================== HISTORICAL
\* ------------------------------------------------------------- bounds
MaxSubmit == 4         \* records handed to _save_post_data over all runs
MaxRuns == 2           \* searcher instances (process restarts) over the file

Range(f) == {f[i] : i \in DOMAIN f}

\* uri of a post: post.uri, or '' when the post has no uri attribute
\* (_extract_post_data, line 295).
HUris == {"", "at://a/post/1", "at://b/post/2"}

\* Python's None (reply_to of a post that is no reply, line 285).
None == "<None>"

\* An image URL (image_list['fullsize'], line 308), numbered; and the text
\* str() gives for a list of URLs, e.g. "['https://cdn...']" or "[]". The two
\* are different strings: repr tells them apart.
Url(n) == [url |-> n, repr |-> FALSE]

\* str(list) as DataFrame.to_csv writes a list cell. _get_image_data returns at
\* most one URL (the first image only), so the text holds no comma.
ListRepr(list) ==
    IF list = << >> THEN [url |-> 0, repr |-> TRUE]
    ELSE [url |-> list[1].url, repr |-> TRUE]

\* post['text']: an ordinary text, or one of the texts pandas reads as missing.
HTexts == {"quake", "n/a"}

\* The dict _extract_post_data returns (lines 288-302), reduced to the fields
\* the pipeline reads.
PostData(uri, has_images, image_urls, reply_to, text) ==
    [uri |-> uri, has_images |-> has_images, image_urls |-> image_urls,
     reply_to |-> reply_to, text |-> text]

HRecords ==
    {PostData(u, b, IF b THEN << Url(1) >> ELSE << >>, None, "quake") :
        u \in HUris, b \in BOOLEAN}
    \cup {PostData("at://b/post/2", FALSE, << >>, None, "n/a")}

\* What pandas.read_csv yields for a missing cell.
NaN == "<NaN>"

\* Cell texts pandas.read_csv takes for missing values (its default na_values,
\* of which the empty cell and "n/a" occur here).
NaValues == {"", "n/a"}

\* DataFrame.to_csv writes a string cell as it is; '' becomes an empty cell.
ToCsvCell(value) == value

\* pandas.read_csv: a cell in na_values is read back as NaN, any other as
\* written.
ReadCsvCell(cell) == IF cell \in NaValues THEN NaN ELSE cell

\* DataFrame.to_csv of a value read by read_csv: NaN is written as an empty
\* cell (na_rep='').
WriteCsvCell(value) == IF value = NaN THEN "" ELSE value

\* pd.read_csv(existing_posts_fp)['uri'].tolist()
ReadUriColumn(rows) == [i \in DOMAIN rows |-> ReadCsvCell(rows[i].uri)]

\* Python's `x in list` for a str x: NaN equals nothing.
PyIn(x, list) == \E i \in DOMAIN list : list[i] # NaN /\ list[i] = x

\* _save_post_data, lines 352-363: the uris already stored; a missing file is
\* created with its header line.
ExistingUris == IF file_exists THEN ReadUriColumn(csv_rows) ELSE << >>

\* utils.append_to_csv(fp, [post_data], mode='a'): one row, no header.
append_to_csv(rows, post_data) ==
    Append(rows, [uri        |-> ToCsvCell(post_data.uri),
                  has_images |-> post_data.has_images,
                  image_urls |-> ListRepr(post_data.image_urls),
                  text       |-> ToCsvCell(post_data.text)])

\* _save_post_data(post_data), lines 341-376.
SavePostData(post_data) ==
    /\ file_exists' = TRUE
    /\ csv_headers' = IF file_exists THEN csv_headers ELSE csv_headers + 1
    /\ IF PyIn(post_data.uri, ExistingUris)
       THEN UNCHANGED <<csv_rows, h_post_count, image_post_count>>
       ELSE /\ csv_rows' = append_to_csv(csv_rows, post_data)
            /\ h_post_count' = h_post_count + 1
            /\ image_post_count' = IF post_data.has_images
                                   THEN image_post_count + 1
                                   ELSE image_post_count

\* search_posts hands the next accepted record to _save_post_data (line 180).
HSave ==
    /\ h_runs >= 1
    /\ Len(h_submitted) < MaxSubmit
    /\ \E post_data \in HRecords :
         /\ SavePostData(post_data)
         /\ h_submitted' = Append(h_submitted, post_data.uri)
    /\ UNCHANGED h_runs

\* A new BlueskyHistoricalSearch is built (process start): the counters start
\* at 0, the file on disk is whatever earlier runs left.
HNewRun ==
    /\ h_runs < MaxRuns
    /\ h_runs' = h_runs + 1
    /\ h_post_count' = 0
    /\ image_post_count' = 0
    /\ UNCHANGED <<file_exists, csv_rows, csv_headers, h_submitted>>

\* pd.read_csv followed by df.to_csv(index=False): every row as pandas writes
\* back what it read.
RewriteRows(rows) ==
    [i \in DOMAIN rows |->
        [uri        |-> WriteCsvCell(ReadCsvCell(rows[i].uri)),
         has_images |-> rows[i].has_images,
         image_urls |-> rows[i].image_urls,
         text       |-> WriteCsvCell(ReadCsvCell(rows[i].text))]]

\* process_results, lines 398-443: the store is read into a DataFrame and,
\* unless it is empty, written back whole over the file (header and all rows).
HProcessResults ==
    /\ h_runs >= 1
    /\ file_exists
    /\ csv_rows # << >>
    /\ csv_rows' = RewriteRows(csv_rows)
    /\ UNCHANGED <<file_exists, csv_headers, h_post_count, image_post_count,
                   h_runs, h_submitted>>

SIdle ==
    /\ SInit
    /\ duration_seconds = 0
    /\ post_limit = 0

HInit == SIdle /\ HIdle /\ QIdle

HNext ==
    \/ HSave /\ UNCHANGED <<svars, qvars>>
    \/ HNewRun /\ UNCHANGED <<svars, qvars>>
    \/ HProcessResults /\ UNCHANGED <<svars, qvars>>

HistSpec == HInit /\ [][HNext]_vars


\* ===================================================== HISTORICAL SEARCH
\* ------------------------------------------------------------- bounds
MaxCorpus == 2         \* posts the search endpoint holds for a keyword
MaxKeywords == 2       \* keywords of one search
MaxLimit == 2          \* the largest limit tried (0 stands for None)
MaxRequests == 6     \* search requests of one call of search_posts
MaxLogins == 2       \* calls of client.login by one searcher

\* --------------------------------------------------- program constants
max_retries == 3       \* _make_request_with_backoff(..., max_retries=3)
backoff_time == 500    \* backoff_time = 0.5 seconds, in milliseconds
stash_every == 10      \* images_collected % 10 == 0
page_limit == 2        \* "limit": 100, the most posts of one page, scaled down

\* search_posts(..., include_replies=False); __main__ does not pass it.
include_replies == FALSE

\* ------------------------------------------------------- the upstream
\* "image": a post with an image; "reply": an image post that is a reply;
\* "text": a post without embed; "old": an image post indexed before the time
\* window; "broken": an image post whose image URL does not answer; "raising":
\* an image post whose extraction raises (the translation of its text fails,
\* line 266).
PostKinds == {"image", "reply", "text", "old", "broken", "raising"}

PostUris == << "at://a/post/1", "at://b/post/2", "at://c/post/3", "at://d/post/4" >>

\* The post the endpoint holds at position i of its results.
UpstreamPost(i, kind) ==
    [kind      |-> kind,
     uri       |-> PostUris[i],
     images    |-> IF kind = "text" THEN << >> ELSE << Url(i) >>,
     parent    |-> IF kind = "reply" THEN "at://z/post/0" ELSE None,
     in_window |-> kind # "old",
     text      |-> "quake"]

Corpora ==
    UNION { { [i \in 1..n |-> UpstreamPost(i, kinds[i])] :
                kinds \in [1..n -> PostKinds] } : n \in 0..MaxCorpus }

\* requests.get(image_url) times out or answers with an error status.
Unreachable(image_url) ==
    \E i \in DOMAIN corpus :
        corpus[i].kind = "broken" /\ image_url \in Range(corpus[i].images)

Min(a, b) == IF a <= b THEN a ELSE b

\* params["limit"], line 136: 100 if limit is None else
\* min(100, limit - posts_collected).
ParamLimit ==
    IF limit = 0 THEN page_limit ELSE Min(page_limit, limit - posts_collected)

\* client.app.bsky.feed.search_posts(params): the page after the cursor (the
\* first page when params holds no cursor) and the cursor of the next page,
\* None after the last one.
SearchPage(cur, n) ==
    LET size == Min(n, Len(corpus) - cur)
    IN  [ok     |-> TRUE,
         posts  |-> SubSeq(corpus, cur + 1, cur + size),
         cursor |-> IF cur + size < Len(corpus) THEN cur + size ELSE 0]

\* _extract_post_data(post), lines 234-302.
ExtractPostData(post) ==
    PostData(post.uri, post.images # << >>, post.images, post.parent, post.text)

\* _extract_post_data(post) raises: GoogleTranslator(...).translate(text),
\* line 266, is not guarded.
ExtractionRaises(post) == post.in_window /\ post.kind = "raising"

\* line 171: if only_images and not post_data['has_images']
RejectedByImageFilter(post_data) == arg_only_images /\ ~post_data.has_images

\* A reply filter that lets every post through.
NoReplyFilter(post_data) == FALSE

\* line 177: if not include_replies and post_data['reply_to']
RejectedByReplyFilter(post_data) == ~include_replies /\ post_data.reply_to # None

\* A delay that doubles once too often.
BackoffDelayLate(k) == backoff_time * 2^k

\* line 70: sleep_time = backoff_time * (2 ** (retries - 1)), after the k-th
\* failure (retries = k).
BackoffDelay(k) == backoff_time * 2^(k - 1)

\* ----------------------------------------------------- download passes
\* lines 198 and 211: the image URLs of the posts in all_results.
AllUrls(results) ==
    UNION { Range(results[i].image_urls) :
              i \in {j \in DOMAIN results : results[j].has_images} }

\* _download_new_images, lines 225-226: the cells of column image_urls, each
\* split at its commas (it holds none).
ExistingUrls(rows) == { rows[i].image_urls : i \in DOMAIN rows }

\* _download_new_images, lines 221-232: the URLs it hands to _download_image;
\* none when the store does not exist.
NewUrls(image_urls, exists, rows) ==
    IF ~exists THEN {} ELSE image_urls \ ExistingUrls(rows)

\* _download_image is called once for every new URL; it makes one
\* requests.get and writes the file when the answer is 200 (lines 312-339).
DownloadNewImages(kind, at, results, exists, rows) ==
    LET new_urls == NewUrls(AllUrls(results), exists, rows)
    IN  /\ fetch_calls' = fetch_calls (+) SetToBag(new_urls)
        /\ images_dir' = images_dir \cup {u \in new_urls : ~Unreachable(u)}
        /\ last_pass' = [n |-> last_pass.n + 1, kind |-> kind, at |-> at,
                         all_urls |-> AllUrls(results)]

\* ----------------------------------------------------------- search_posts
\* __main__, lines 461-475: a searcher is built and search_posts is called; a
\* call that returned at line 100 may be followed by another call on the same
\* searcher. Line 98: authenticate() is called only when self.authenticated
\* is false.
SearchCall ==
    /\ spc \in {"none", "refused"}
    /\ IF spc = "none" THEN HNewRun ELSE UNCHANGED <<storevars, h_runs>>

\* authenticate, lines 43-53, when client.login returns: self.authenticated is
\* set.
LoginSucceeds ==
    /\ ~authenticated
    /\ logins < MaxLogins
    /\ logins' = logins + 1
    /\ authenticated' = TRUE

\* authenticate, lines 43-53, when client.login raises: the failure is
\* printed and self.authenticated stays false.
LoginFails ==
    /\ ~authenticated
    /\ logins < MaxLogins
    /\ logins' = logins + 1
    /\ authenticated' = FALSE

\* The locals of search_posts as lines 102-132 set them.
BeginSearch ==
    /\ spc' = "keyword"
    /\ keyword' = 1
    /\ cursor' = 0
    /\ response' = NoResponse
    /\ pidx' = 0
    /\ posts_collected' = 0
    /\ images_collected' = 0
    /\ all_results' = << >>
    /\ requests' = 0
    /\ counted' = {}
    /\ last_pass' = NoPass
    /\ UNCHANGED <<inputs, reqvars, fetch_calls, images_dir>>

\* Lines 98-100 with the login failing, as a search that goes on nevertheless.
SearchUnauthenticated ==
    /\ SearchCall
    /\ LoginFails
    /\ BeginSearch

\* search_posts, lines 98-127, when the searcher is authenticated or the
\* login succeeds.
SearchStart ==
    /\ SearchCall
    /\ IF authenticated THEN UNCHANGED authvars ELSE LoginSucceeds
    /\ BeginSearch

\* search_posts, lines 98-100, when the login fails: the call returns [].
SearchRefused ==
    /\ SearchCall
    /\ LoginFails
    /\ spc' = "refused"
    /\ all_results' = << >>
    /\ UNCHANGED <<inputs, keyword, cursor, response, pidx, posts_collected,
                   images_collected, reqvars, requests, dlvars, counted>>

\* lines 126-132: the next keyword, with cursor = None; after the last one the
\* final download pass.
NextKeyword ==
    /\ spc = "keyword"
    /\ IF keyword <= nkeywords
       THEN spc' = "while" /\ cursor' = 0
       ELSE spc' = "final" /\ cursor' = cursor
    /\ UNCHANGED <<inputs, authvars, keyword, response, pidx, posts_collected,
                   images_collected, all_results, reqvars, requests, dlvars,
                   counted, storevars, h_runs>>

\* A page loop that does not test the limit.
WhileTestNoLimit ==
    /\ spc = "while"
    /\ requests < MaxRequests
    /\ requests' = requests + 1
    /\ retries' = 0
    /\ calls' = 0
    /\ slept' = << >>
    /\ spc' = "request"
    /\ UNCHANGED <<inputs, authvars, keyword, cursor, response, pidx,
                   posts_collected, images_collected, all_results, dlvars,
                   counted, storevars, h_runs>>

\* line 133: while limit is None or posts_collected < limit; lines 136-145 and
\* 57-58: a request is started with retries = 0.
WhileTest ==
    /\ spc = "while"
    /\ IF limit = 0 \/ posts_collected < limit
       THEN /\ requests < MaxRequests
            /\ requests' = requests + 1
            /\ retries' = 0
            /\ calls' = 0
            /\ slept' = << >>
            /\ spc' = "request"
            /\ keyword' = keyword
       ELSE /\ keyword' = keyword + 1
            /\ spc' = "keyword"
            /\ UNCHANGED <<requests, reqvars>>
    /\ UNCHANGED <<inputs, authvars, cursor, response, pidx, posts_collected,
                   images_collected, all_results, dlvars, counted, storevars,
                   h_runs>>

\* _make_request_with_backoff, lines 60-62: func answers and its result is
\* returned.
RequestSucceeds ==
    /\ spc = "request"
    /\ retries < max_retries
    /\ calls' = calls + 1
    /\ response' = SearchPage(cursor, ParamLimit)
    /\ spc' = "response"
    /\ UNCHANGED <<inputs, authvars, keyword, cursor, pidx, posts_collected,
                   images_collected, all_results, retries, slept, requests,
                   dlvars, counted, storevars, h_runs>>

\* _make_request_with_backoff, lines 60-71: func raises; the failure is
\* counted and the delay slept.
RequestFails ==
    /\ spc = "request"
    /\ retries < max_retries
    /\ calls' = calls + 1
    /\ retries' = retries + 1
    /\ slept' = Append(slept, BackoffDelay(retries + 1))
    /\ UNCHANGED <<inputs, authvars, spc, keyword, cursor, response, pidx,
                   posts_collected, images_collected, all_results, requests,
                   dlvars, counted, storevars, h_runs>>

\* _make_request_with_backoff, lines 59 and 73: the loop ends, None is
\* returned.
RequestGivesUp ==
    /\ spc = "request"
    /\ retries >= max_retries
    /\ response' = NoResponse
    /\ spc' = "response"
    /\ UNCHANGED <<inputs, authvars, keyword, cursor, pidx, posts_collected,
                   images_collected, all_results, reqvars, requests, dlvars,
                   counted, storevars, h_runs>>

\* lines 156-161: no response or no posts ends the page loop of the keyword;
\* otherwise the posts of the page are gone through.
CheckResponse ==
    /\ spc = "response"
    /\ IF ~response.ok \/ response.posts = << >>
       THEN keyword' = keyword + 1 /\ spc' = "keyword" /\ pidx' = pidx
       ELSE keyword' = keyword /\ spc' = "post" /\ pidx' = 1
    /\ retries' = 0
    /\ calls' = 0
    /\ slept' = << >>
    /\ UNCHANGED <<inputs, authvars, cursor, response, posts_collected, images_collected,
                   all_results, requests, dlvars, counted, storevars, h_runs>>

\* lines 161-202: the body of `for post in response.posts` for one post. A
\* post rejected by a filter is left with `continue`, the limit being reached
\* with `break`; only otherwise (the post saved, or outside the time window)
\* are the cursor taken from the response and the stash test of line 196
\* reached.
ProcessPost ==
    /\ spc = "post"
    /\ ~ExtractionRaises(response.posts[pidx])
    /\ LET post       == response.posts[pidx]
           post_data  == ExtractPostData(post)
           observed   == post.in_window /\ ~RejectedByImageFilter(post_data)
           new_images == IF observed /\ post_data.has_images
                         THEN images_collected + Len(post_data.image_urls)
                         ELSE images_collected
           saved      == observed /\ ~RejectedByReplyFilter(post_data)
           outcome    == saved /\ ~PyIn(post_data.uri, ExistingUris)
           new_posts  == IF outcome THEN posts_collected + 1 ELSE posts_collected
           results    == IF saved THEN Append(all_results, post_data)
                         ELSE all_results
           broke      == saved /\ limit # 0 /\ new_posts >= limit
           tail       == ~post.in_window \/ (saved /\ ~broke)
           stash      == tail /\ new_images > 0 /\ new_images % stash_every = 0
       IN  /\ images_collected' = new_images
           /\ counted' = IF observed /\ post_data.has_images
                         THEN counted \cup Range(post_data.image_urls)
                         ELSE counted
           /\ IF saved
              THEN /\ SavePostData(post_data)
                   /\ h_submitted' = Append(h_submitted, post_data.uri)
              ELSE UNCHANGED storevars
           /\ posts_collected' = new_posts
           /\ all_results' = results
           /\ cursor' = IF tail THEN response.cursor ELSE cursor
           /\ IF stash
              THEN DownloadNewImages("stash", new_images, results,
                                     file_exists', csv_rows')
              ELSE UNCHANGED dlvars
           /\ IF broke \/ pidx = Len(response.posts)
              THEN spc' = "while" /\ pidx' = pidx
              ELSE spc' = "post" /\ pidx' = pidx + 1
    /\ UNCHANGED <<inputs, authvars, keyword, response, reqvars, requests, h_runs>>

\* lines 165 and 204-209: the extraction of the post at hand raises; the
\* except clause of the try that encloses the body of the while loop prints
\* the error, sleeps and leaves the page loop of the keyword with `break`.
SearchError ==
    /\ spc = "post"
    /\ ExtractionRaises(response.posts[pidx])
    /\ keyword' = keyword + 1
    /\ spc' = "keyword"
    /\ UNCHANGED <<inputs, authvars, cursor, response, pidx, posts_collected,
                   images_collected, all_results, reqvars, requests, dlvars,
                   counted, storevars, h_runs>>

\* lines 211-216: the final download pass, the summary, the return.
SearchReturn ==
    /\ spc = "final"
    /\ DownloadNewImages("final", images_collected, all_results, file_exists,
                         csv_rows)
    /\ spc' = "done"
    /\ UNCHANGED <<inputs, authvars, keyword, cursor, response, pidx, posts_collected,
                   images_collected, all_results, reqvars, requests, counted,
                   storevars, h_runs>>

\* ------------------------------------------------------ specification
\* The arguments of the search and the posts the endpoint holds.
QInit ==
    /\ SIdle
    /\ HIdle
    /\ corpus \in Corpora
    /\ nkeywords \in {1, MaxKeywords}
    /\ limit \in 0..MaxLimit
    /\ arg_only_images \in BOOLEAN
    /\ QLocals

QNext ==
    \/ SearchStart /\ UNCHANGED svars
    \/ SearchRefused /\ UNCHANGED svars
    \/ NextKeyword /\ UNCHANGED svars
    \/ WhileTest /\ UNCHANGED svars
    \/ RequestSucceeds /\ UNCHANGED svars
    \/ RequestFails /\ UNCHANGED svars
    \/ RequestGivesUp /\ UNCHANGED svars
    \/ CheckResponse /\ UNCHANGED svars
    \/ ProcessPost /\ UNCHANGED svars
    \/ SearchError /\ UNCHANGED svars
    \/ SearchReturn /\ UNCHANGED svars

SearchSpec == QInit /\ [][QNext]_vars


\* =============================================================== CLAIMS
RowsWithUri(rows, u) == {i \in DOMAIN rows : rows[i].uri = u}

\* C1: in the streaming pipeline the output holds at most one row per uri,
\* whichever workers processed the messages that carried it.
C1_OneRowPerUri ==
    \A i, j \in DOMAIN output : output[i].uri = output[j].uri => i = j

\* C2: in the historical pipeline the store holds exactly one row for every
\* uri that was submitted, over all runs on the same file.
C2_OneRowPerUri ==
    \A u \in Range(h_submitted) : Cardinality(RowsWithUri(csv_rows, u)) = 1

\* C3: when the controller has reported the summary (Stopped), no worker is
\* left with accepted records of a dequeued message that were not appended
\* and counted.
C3_InFlightPersisted ==
    Stopped => \A w \in Workers : todo[w] = << >>

\* C4: once stop_event is set no worker takes a further message off the queue.
C4_NoDequeueAfterSignal ==
    [][stop_event => ngot' = ngot]_vars

\* C5: the Event Queue is bounded: some capacity smaller than the number of
\* messages the feed delivers is never exceeded (the subscriber waits instead).
C5_QueueBounded ==
    \E capacity \in 1..(MaxFeed - 1) : Len(queue) <= capacity

\* Messages handed to message_handler whose handling has not finished.
InHandler == IF cpc \in {"handler", "put"} THEN 1 ELSE 0

\* C6: while stop_event is unset, the queue holds, in arrival order, exactly
\* the messages that arrived from the feed and were not yet dequeued, save the
\* one message_handler is still handling: none dropped, none duplicated, none
\* out of order.
C6_FifoEnqueue ==
    ~stop_event => queue = SubSeq(feed, ngot + 1, Len(feed) - InHandler)

C6_Witness ==
    /\ ~stop_event
    /\ Len(queue) >= 2
    /\ queue[1].commit # queue[2].commit

\* C7: a step of the main process taken while Running, either an iteration of
\* the monitor loop that finds the time limit passed, the post limit reached
\* or the client dead, or the delivery of SIGINT, sets stop_event and leaves
\* the controller Draining.
C7_TriggersDrain ==
    [][ ( /\ Running
          /\ \/ /\ AtPc("monitor")
                /\ ctl' # ctl
                /\ TimeLimitReached \/ PostLimitReached \/ ~ClientAlive
             \/ sigints' # sigints )
        => (stop_event' /\ Draining') ]_vars

\* The monitor loop has just found the client dead, with no limit reached and
\* no SIGINT, and called _stop_collection.
C7_Witness ==
    /\ Len(ctl) >= 2
    /\ Top.pc = "sc_client"
    /\ ctl[2].pc = "after_loop"
    /\ stop_event
    /\ ~ClientAlive
    /\ ~TimeLimitReached
    /\ ~PostLimitReached
    /\ sigints = 0

\* C8: when the monitor loop, while Running, finds the client dead with no
\* limit reached, the controller does not set stop_event and goes on to start
\* a fresh client.
C8_RestartOnDisconnect ==
    [][ ( /\ Running
          /\ AtPc("monitor")
          /\ ~ClientAlive
          /\ ~TimeLimitReached
          /\ ~PostLimitReached
          /\ ctl' # ctl
          /\ sigints' = sigints )
        => (~stop_event' /\ AtPc("start_client")') ]_vars

AllProcessesDead == ~ClientAlive /\ \A w \in Workers : ~WorkerAlive(w)

\* C9: once stop_event is set the controller eventually reaches Stopped, and
\* in Stopped neither the client nor any worker is alive.
C9_EventuallyStopped ==
    /\ stop_event ~> Stopped
    /\ [](Stopped => AllProcessesDead)

\* C10: every run that starts shutting down prints the summary with the count
\* reached, and a run that received SIGINT ends with exit status 0 after it.
C10_SummaryReported ==
    /\ stop_event ~> (reports # << >> /\ reports[Len(reports)] = post_count)
    /\ (sigints > 0) ~> (exit_status = "exit0" /\ reports # << >>)

\* The worker w takes the message at the head of the queue in this step.
Dequeues(w) ==
    /\ wpc[w] = "get"
    /\ wpc'[w] # "get"
    /\ queue # << >>
    /\ queue' = Tail(queue)

\* C13: a worker that dequeues a message whose processing raises is left in
\* its loop (about to test stop_event and dequeue again, or saving the records
\* accepted before the exception), and no worker is ever in another position
\* than those of worker_process.
C13_WorkerSurvives ==
    [][ /\ \A w \in Workers :
            (Dequeues(w) /\ Raises(Head(queue))) => wpc'[w] \in {"loop", "save"}
        /\ \A w \in Workers :
            wpc'[w] \in {"none", "loop", "get", "save", "write", "count",
                          "incr", "exited", "terminated"} ]_vars

\* The worker that printed the last error has since dequeued another message
\* and is saving its record.
C13_Witness ==
    \E w \in Workers :
        /\ logged_error = w
        /\ wpc[w] = "save"
        /\ todo[w] # << >>

\* The records of one operation when a record that raises is skipped alone.
RECURSIVE well_formed_post(_, _, _)
well_formed_post(repo, op, blocks) ==
    IF blocks = << >> THEN << >>
    ELSE LET record == Head(blocks)
             rest   == well_formed_post(repo, op, Tail(blocks))
         IN  IF record.type # PostCollection \/ record.malformed THEN rest
             ELSE IF only_images /\ ~record.has_images THEN rest
             ELSE << extract_post_data(record, repo, op) >> \o rest

RECURSIVE well_formed_ops(_, _)
well_formed_ops(commit, ops) ==
    IF ops = << >> THEN << >>
    ELSE LET op == Head(ops)
         IN  (IF op.action = "create" /\ op.collection = PostCollection
              THEN well_formed_post(commit.repo, op, commit.blocks)
              ELSE << >>) \o well_formed_ops(commit, Tail(ops))

\* C14: the records a worker is left to persist for a dequeued message are all
\* the well-formed post records of the message that pass the filters, those
\* after a record that raises included.
C14_OnlyMalformedSkipped ==
    [][ \A w \in Workers :
          Dequeues(w) =>
            todo'[w] = well_formed_ops(Head(queue).commit, Head(queue).commit.ops) ]_vars

\* C15: the store is append-only: it never holds more than one header line,
\* holds it whenever it holds a row, and the rows of a state are an unchanged
\* prefix of the rows of the next state.
C15_AppendOnly ==
    [][ /\ csv_headers' <= 1
        /\ csv_rows' # << >> => csv_headers' = 1
        /\ Len(csv_rows) <= Len(csv_rows')
        /\ \A i \in DOMAIN csv_rows : csv_rows'[i] = csv_rows[i] ]_vars

\* C16: handing _save_post_data a record whose uri some row of the store
\* already holds leaves the rows, post_count and image_post_count as they are.
C16_DuplicateChangesNothing ==
    [][ ( /\ Len(h_submitted') = Len(h_submitted) + 1
          /\ RowsWithUri(csv_rows, h_submitted'[Len(h_submitted')]) # {} )
        => ( /\ csv_rows' = csv_rows
             /\ h_post_count' = h_post_count
             /\ image_post_count' = image_post_count ) ]_vars

RECURSIVE SeqSum(_)
SeqSum(seq) == IF seq = << >> THEN 0 ELSE Head(seq) + SeqSum(Tail(seq))

\* C11: _make_request_with_backoff calls func at most max_retries times; every
\* call before the last has failed; it returns a result after the first call
\* that succeeds and None after max_retries failures; the delay slept after
\* the k-th failure is 0.5 * 2^(k-1) seconds, so the time slept is at least
\* the sum of the delays scheduled for the failures so far.
C11_Backoff ==
    /\ calls <= max_retries
    /\ Len(slept) = retries
    /\ \A k \in 1..Len(slept) : slept[k] = backoff_time * 2^(k - 1)
    /\ SeqSum(slept) >= backoff_time * (2^retries - 1)
    /\ spc = "request" => calls = retries
    /\ spc = "response" =>
         IF response.ok THEN calls = retries + 1
         ELSE calls = max_retries /\ retries = max_retries

\* A request answered at its last attempt: two failures, 0.5 s and 1 s slept,
\* then the page.
C11_Witness ==
    /\ spc = "response"
    /\ response.ok
    /\ response.posts # << >>
    /\ calls = max_retries
    /\ slept = << 500, 1000 >>

C17_FetchedOnce ==
    \A u \in BagToSet(fetch_calls) : CopiesIn(u, fetch_calls) <= 1

\* C18: images_collected leaves a positive multiple of 10 only after the
\* stash pass of that multiple was run.
C18_PassAtEveryMultiple ==
    [][ ( /\ images_collected' # images_collected
          /\ images_collected > 0
          /\ images_collected % stash_every = 0 )
        => (last_pass.kind = "stash" /\ last_pass.at = images_collected) ]_vars

\* C19: every URL counted in images_collected so far, those of posts the reply
\* filter rejected included, is among the URLs a download pass considers.
C19_RejectedUrlsConsidered ==
    [][ last_pass'.n # last_pass.n => counted' \subseteq last_pass'.all_urls ]_vars

\* C20: a pass that tries a URL which does not answer tries it max_retries
\* times before giving it up.
C20_FailedDownloadRetried ==
    [][ \A u \in BagToSet(fetch_calls') :
          ( /\ Unreachable(u)
            /\ CopiesIn(u, fetch_calls') # CopiesIn(u, fetch_calls) )
          => CopiesIn(u, fetch_calls') = CopiesIn(u, fetch_calls) + max_retries ]_vars

\* C21: the counter never exceeds the rows appended, and as long as no worker
\* was terminated it equals the rows appended less the saves that have written
\* their row and not yet counted it: no increment is lost.
C21_AtomicCount ==
    /\ post_count <= Len(output)
    /\ (\A w \in Workers : wpc[w] # "terminated") =>
         post_count = Len(output)
                      - Cardinality({w \in Workers : wpc[w] \in {"count", "incr"}})

\* Two saves were completed and every worker is back in its loop.
C21_Witness ==
    /\ post_count = 2
    /\ Len(output) = 2
    /\ \A w \in Workers : wpc[w] \in {"loop", "get"}

\* C22: at most one worker is between the open and the close of the output
\* file, and it holds the lock.
C22_ExclusiveWrite ==
    /\ Cardinality({w \in Workers : wpc[w] = "write"}) <= 1
    /\ \A w \in Workers : wpc[w] = "write" => lock = w

\* One worker is writing while another, its record accepted, waits for the
\* lock.
C22_Witness ==
    \E w, v \in Workers :
        /\ w # v
        /\ wpc[w] = "write"
        /\ wpc[v] = "save"

\* C23: a search request is issued only by an authenticated searcher; a call
\* of search_posts whose login fails issues no search request, persists
\* nothing and returns the empty list; the call after it attempts the login
\* again.
C23_AuthBeforeSearch ==
    [][/\ requests' # requests => authenticated'
       /\ spc' \notin {"none", "refused"} => authenticated'
       /\ spc' = "refused" =>
            /\ ~authenticated'
            /\ requests' = requests
            /\ calls' = calls
            /\ csv_rows' = csv_rows
            /\ file_exists' = file_exists
            /\ images_dir' = images_dir
            /\ all_results' = << >>
       /\ spc = "refused" => logins' = logins + 1]_vars

\* A refused call was followed by a call that logged in and searched.
C23_Witness == logins = 2 /\ authenticated /\ requests > 0

\* C24: every row of the output, of the streaming pipeline (output) and of
\* the historical one (csv_rows), holds a non-empty uri.
C24_NonEmptyUri ==
    /\ \A i \in DOMAIN output : output[i].uri # ""
    /\ \A i \in DOMAIN csv_rows : csv_rows[i].uri # ""

\* C25: once stop_event is set the subscriber puts no further message on the
\* queue: no step taken with the signal set lengthens the queue.
C25_NoPutAfterSignal ==
    [][stop_event => Len(queue') <= Len(queue)]_vars

\* The create-post operations of a commit.
CreatePostOps(commit) ==
    {i \in DOMAIN commit.ops :
        /\ commit.ops[i].action = "create"
        /\ commit.ops[i].collection = PostCollection}

\* C26: of a commit with several operations, every create-post operation has
\* at most one row in the output, holding the text of the record that
\* operation created, and the output holds no more rows than the commits
\* received have create-post operations.
C26_OneRecordPerCreate ==
    /\ \A m \in DOMAIN feed :
         LET commit == feed[m].commit
         IN  \A o \in CreatePostOps(commit) :
                LET op   == commit.ops[o]
                    rows == RowsWithUri(output, Uri(commit.repo, op))
                IN  /\ Cardinality(rows) <= 1
                    /\ \A r \in rows :
                         \E b \in DOMAIN commit.blocks :
                            /\ commit.blocks[b].cid = op.cid
                            /\ commit.blocks[b].text = output[r].text
    /\ \A m \in DOMAIN feed :
         Cardinality({r \in DOMAIN output : output[r].uri[1] = feed[m].commit.repo})
           <= Cardinality(CreatePostOps(feed[m].commit))

\* C27: a collection started with a post limit never appends more rows to the
\* output than the limit.
C27_LimitNotExceeded ==
    post_limit # 0 => Len(output) <= post_limit

\* C29: the summary of a collection is reported at most once.
C29_SummaryOnce ==
    Len(reports) <= 1

\* C30: the count every reported summary gives is the number of rows the
\* output holds.
C30_ReportedCountIsRows ==
    \A i \in DOMAIN reports : reports[i] = Len(output)

\* C28: when the posts of a page have been processed and the page loop goes
\* on, the cursor of the next request is the one that came with that page,
\* whichever posts of the page the filters rejected.
C28_CursorAdvances ==
    [][(/\ spc = "post"
        /\ spc' = "while"
        /\ (limit = 0 \/ posts_collected' < limit))
       => cursor' = response.cursor]_vars

\* C31: a call of search_posts with a limit appends no more rows than the
\* limit, over all keywords and pages; a record rejected as a duplicate is
\* not counted towards the limit; no page is requested once as many rows as
\* the limit were appended.
C31_LimitRespected ==
    [][/\ limit # 0 => Len(csv_rows') <= limit
       /\ (Len(h_submitted') > Len(h_submitted) /\ csv_rows' = csv_rows)
            => posts_collected' = posts_collected
       /\ requests' > requests => (limit = 0 \/ Len(csv_rows) < limit)]_vars

\* A search with two keywords reached its limit and returned.
C31_Witness ==
    /\ limit = MaxLimit
    /\ Len(csv_rows) = limit
    /\ nkeywords = MaxKeywords
    /\ spc = "done"

\* C32: a post of a page whose extraction raises is skipped alone: the search
\* goes on with the next post of the page or, after the last post, with the
\* page loop of the same keyword.
C32_ErrorSkipsOnePost ==
    [][(spc = "post" /\ ExtractionRaises(response.posts[pidx]))
       => /\ keyword' = keyword
          /\ IF pidx < Len(response.posts)
             THEN spc' = "post" /\ pidx' = pidx + 1
             ELSE spc' = "while"]_vars

\* The state of the controller's lifecycle: 0 Idle, 1 Running, 2 Draining,
\* 3 Stopped; 4 were a state that is none of them.
Phase ==
    IF Stopped THEN 3
    ELSE IF Draining THEN 2
    ELSE IF Running THEN 1
    ELSE IF Idle THEN 0
    ELSE 4

\* C33: the controller is always Idle, Running, Draining or Stopped and never
\* moves back in that order; stop_event, once set, stays set, and with
\* stop_event set no client and no worker process is started.
C33_LifecycleForward ==
    [][/\ Phase' \in 0..3
       /\ Phase' >= Phase
       /\ stop_event => stop_event'
       /\ stop_event => /\ ClientAlive' => ClientAlive
                        /\ \A w \in Workers : WorkerAlive(w)' => WorkerAlive(w)]_vars

\* A collection that went through Running and Draining without SIGINT, left
\* the monitor loop with the event set, started no further client, reported
\* and returned.
C33_Witness ==
    /\ Phase = 3
    /\ stop_event
    /\ sigints = 0
    /\ exit_status = "returned"
    /\ ~ClientAlive

====
